---- MODULE Spec2Model ----
(***************************************************************************)
(* Model of circlator's "all" task (circlator/tasks/all.py, run()): the    *)
(* controller that creates the output directory, runs mapreads, bam2reads, *)
(* assemble, merge, clean and fixstart in sequence, classifies the contigs *)
(* from the merge log and derives the exit code.                           *)
(*                                                                         *)
(* Text is modelled as a sequence of symbols.  A symbol is a string: the   *)
(* whitespace symbols "\t", "\n" and " " stand for themselves, every other *)
(* symbol stands for a run of non-whitespace characters.                   *)
(***************************************************************************)
EXTENDS Integers, Sequences, FiniteSets, TLC

----------------------------------------------------------------------------
(* Bounds of the model *)

\* longest merge log, in lines
MaxLines == 2
\* largest value of --unchanged_code that is tried
MaxCode == 1
\* the most files shutil.rmtree has removed when it raises
MaxRemoved == 3

----------------------------------------------------------------------------
(* Text *)

TAB == "\t"
NL == "\n"
SPACE == " "
Whitespace == {TAB, NL, SPACE}
NONE == "None"

\* str.rstrip(): drop every trailing whitespace character
RECURSIVE rstrip(_)
rstrip(s) ==
    IF s = <<>> THEN s
    ELSE IF s[Len(s)] \in Whitespace THEN rstrip(SubSeq(s, 1, Len(s) - 1))
    ELSE s

\* str.startswith(prefix)
startswith(s, prefix) ==
    /\ Len(s) >= Len(prefix)
    /\ SubSeq(s, 1, Len(prefix)) = prefix

\* index of the first occurrence of sep in s, 0 if there is none
FirstIndex(s, sep) ==
    IF \E i \in 1..Len(s) : s[i] = sep
    THEN CHOOSE i \in 1..Len(s) : s[i] = sep /\ \A j \in 1..(i - 1) : s[j] # sep
    ELSE 0

\* str.split(sep): the fields between the separators, empty fields kept
RECURSIVE split(_, _)
split(s, sep) ==
    LET i == FirstIndex(s, sep)
    IN  IF i = 0 THEN <<s>>
        ELSE <<SubSeq(s, 1, i - 1)>> \o split(SubSeq(s, i + 1, Len(s)), sep)

\* sep.join(items)
RECURSIVE join(_, _)
join(sep, items) ==
    IF items = <<>> THEN <<>>
    ELSE IF Len(items) = 1 THEN items[1]
    ELSE items[1] \o <<sep>> \o join(sep, Tail(items))

\* the elements of a sequence
Range(s) == {s[i] : i \in 1..Len(s)}

----------------------------------------------------------------------------
(* Artifact names (all.py lines 111-126, 184, 225, 241, 246, 290) *)

info_file == "00.info.txt"
original_assembly_renamed == "00.input_assembly.fasta"
bam == "01.mapreads.bam"
filtered_reads_prefix == "02.bam2reads"
\* the filtered reads are taken to be FASTA whatever the ReadFilter is told
filtered_reads_always_fasta(options) == "02.bam2reads.fasta"

filtered_reads(options) ==
    IF options.assemble_not_only_assembler THEN "02.bam2reads.fastq" ELSE "02.bam2reads.fasta"
assembly_dir == "03.assemble"
merge_prefix == "04.merge"
merged_fasta == "04.merge.fasta"
filtered_assembly == "04.merge.00.filtered_assembly.fa"
merge_log == "04.merge.circularise.log"
clean_prefix == "05.clean"
clean_fasta == "05.clean.fasta"
clean_keep_file == "05.clean.contigs_to_keep"
fixstart_prefix == "06.fixstart"
fixstart_fasta == "06.fixstart.fasta"
not_fix_start_file == "06.fixstart.contigs_to_not_change"
all_finished == "06.fixstart.ALL_FINISHED"

\* the two digits a name starts with (all.py lines 111-126, 184, 225, 241,
\* 246, 290)
StageIndex(name) ==
    CASE name \in {"00.info.txt", "00.input_assembly.fasta"} -> 0
      [] name = "01.mapreads.bam" -> 1
      [] name \in {"02.bam2reads.fasta", "02.bam2reads.fastq"} -> 2
      [] name = "03.assemble" -> 3
      [] name \in {"04.merge.00.filtered_assembly.fa", "04.merge.fasta",
                   "04.merge.circularise.log"} -> 4
      [] name \in {"05.clean.contigs_to_keep", "05.clean.fasta"} -> 5
      [] name \in {"06.fixstart.contigs_to_not_change", "06.fixstart.fasta",
                   "06.fixstart.ALL_FINISHED"} -> 6

\* the index and role a name starts with (all.py lines 111-126, 184, 225,
\* 241, 246, 290)
RolePrefix(name) ==
    CASE name = "00.info.txt" -> "00.info"
      [] name = "00.input_assembly.fasta" -> "00.input_assembly"
      [] name = "01.mapreads.bam" -> "01.mapreads"
      [] name \in {"02.bam2reads.fasta", "02.bam2reads.fastq"} -> "02.bam2reads"
      [] name = "03.assemble" -> "03.assemble"
      [] name \in {"04.merge.00.filtered_assembly.fa", "04.merge.fasta",
                   "04.merge.circularise.log"} -> "04.merge"
      [] name \in {"05.clean.contigs_to_keep", "05.clean.fasta"} -> "05.clean"
      [] name \in {"06.fixstart.contigs_to_not_change", "06.fixstart.fasta",
                   "06.fixstart.ALL_FINISHED"} -> "06.fixstart"

\* the FASTA files whose records the model follows
FastaFiles == {original_assembly_renamed, filtered_assembly, merged_fasta, clean_fasta, fixstart_fasta}
\* the text files whose content the model follows
TextFiles == {merge_log, clean_keep_file, not_fix_start_file}

\* what an earlier run has left in an output directory that exists
stale_file == "stale.txt"
StaleFiles == {stale_file, info_file, all_finished}

\* the original assembly is the merge reference also when a list of contigs
\* is given
assembly_to_use_original(options) == "00.input_assembly.fasta"

\* the merge reference (all.py lines 182-187)
assembly_to_use(options) ==
    IF options.b2r_only_contigs # NONE THEN filtered_assembly ELSE original_assembly_renamed

\* the filtered reads are handed to the Merger whatever --no_pair_merge says
merge_reads_always(options) ==
    IF options.assemble_not_only_assembler THEN "02.bam2reads.fastq" ELSE "02.bam2reads.fasta"

\* the reads handed to the Merger (all.py lines 192-195)
merge_reads(options) ==
    IF ~options.no_pair_merge THEN filtered_reads(options) ELSE NONE

----------------------------------------------------------------------------
(* The merge log and its classification (all.py lines 226-239) *)

LineTag == "[merge circularised]"
TagPrefix == <<LineTag, TAB>>
HeaderLine ==
    join(TAB, << <<LineTag>>, <<"#Contig">>, <<"repetitive_deleted">>,
                 <<"circl_using_nucmer">>, <<"circl_using_spades">>, <<"circularised">> >>)

\* the line is read by the loop and not skipped: it carries the tag and is
\* not the header (all.py lines 230-233)
IsDataLine(line) ==
    /\ startswith(line, TagPrefix)
    /\ rstrip(line) # HeaderLine

\* the fields of a data line (all.py line 235, right-hand side)
Fields(line) == split(rstrip(line), TAB)

\* the first six fields are taken and further fields are ignored
UnpacksAtLeast(line) == Len(split(rstrip(line), TAB)) >= 6

\* the unpacking into six names succeeds (all.py line 235)
Unpacks(line) == Len(Fields(line)) = 6

\* every contig whose sixth field is not 0 counts as circularised
IsCircularisedNotZero(circularised) == circularised # <<"0">>

\* the test of the sixth field (all.py line 236)
IsCircularised(circularised) == circularised = <<"1">>

\* the else is missing: a circularised contig is put into both lists
ClassifiedBoth(lists, name, circularised) ==
    IF circularised = <<"1">>
    THEN [lists EXCEPT !.keep = Append(@, name), !.not_fix = Append(@, name)]
    ELSE [lists EXCEPT !.not_fix = Append(@, name)]

\* the two lists after one more data line (all.py lines 236-239)
Classified(lists, name, circularised) ==
    IF IsCircularised(circularised)
    THEN [lists EXCEPT !.keep = Append(@, name)]
    ELSE [lists EXCEPT !.not_fix = Append(@, name)]

\* the loop over the lines of the log (all.py lines 229-239); ok is FALSE
\* when a line raised ValueError, and the loop stopped there
RECURSIVE ClassifyLoop(_, _)
ClassifyLoop(lines, lists) ==
    IF lines = <<>> \/ ~lists.ok THEN lists
    ELSE LET line == Head(lines)
         IN  IF ~IsDataLine(line) THEN ClassifyLoop(Tail(lines), lists)
             ELSE IF ~Unpacks(line) THEN [lists EXCEPT !.ok = FALSE]
             ELSE ClassifyLoop(Tail(lines),
                      Classified(lists, Fields(line)[2], Fields(line)[6]))

\* all.py lines 226-239
Classify(lines) == ClassifyLoop(lines, [ok |-> TRUE, keep |-> <<>>, not_fix |-> <<>>])

\* what print('\n'.join(names), file=f) leaves in a file opened for writing,
\* nothing being printed for an empty list (all.py lines 242-249)
ListFileBody(names) ==
    IF Len(names) > 0 THEN join(NL, names) \o <<NL>> ELSE <<>>

----------------------------------------------------------------------------
(* Inputs of the model *)

\* the contig names that occur
Names == { <<"ctgA">>, <<"ctgB">> }

\* a tagged line of the merge log with the given contig name and sixth field
DataLine(name, sixth) ==
    join(TAB, << <<LineTag>>, name, <<"0">>, <<"1">>, <<"0">>, sixth >>) \o <<NL>>

\* the lines a merge log is made of: the header, well-formed data lines, and
\* lines that are not what the Merger is documented to write
LineSet ==
    { HeaderLine \o <<NL>>,
      HeaderLine \o <<SPACE, NL>>,
      DataLine(<<"ctgA">>, <<"1">>),
      DataLine(<<"ctgA">>, <<"0">>),
      DataLine(<<"ctgB">>, <<"1">>),
      DataLine(<<"ctgB">>, <<"0">>),
      \* sixth field is some other text
      DataLine(<<"ctgB">>, <<"yes">>),
      \* sixth field is 1 and a space
      DataLine(<<"ctgB">>, <<"1", SPACE>>),
      \* sixth field is empty: the line ends in a tab
      DataLine(<<"ctgA">>, <<>>),
      \* six fields and an empty seventh
      join(TAB, << <<LineTag>>, <<"ctgB">>, <<"0">>, <<"1">>, <<"0">>, <<"1">>, <<>> >>) \o <<NL>>,
      \* five fields
      join(TAB, << <<LineTag>>, <<"ctgA">>, <<"0">>, <<"1">>, <<"0">> >>) \o <<NL>>,
      \* seven fields
      join(TAB, << <<LineTag>>, <<"ctgA">>, <<"0">>, <<"1">>, <<"0">>, <<"1">>, <<"1">> >>) \o <<NL>>,
      \* no line tag
      join(TAB, << <<"[merge]">>, <<"ctgA">>, <<"0">>, <<"1">>, <<"0">>, <<"1">> >>) \o <<NL>>,
      \* a header whose last column is spelt differently
      join(TAB, << <<LineTag>>, <<"#Contig">>, <<"repetitive_deleted">>,
                   <<"circl_using_nucmer">>, <<"circl_using_spades">>, <<"circularized">> >>) \o <<NL>> }

\* the merge logs of at most MaxLines lines
Logs == UNION { [1..n -> LineSet] : n \in 0..MaxLines }

\* the values of --unchanged_code that are tried
UnchangedCodes == 0..MaxCode

\* the command lines that are tried (all.py lines 22-72)
OptionSets ==
    [ force : BOOLEAN,
      unchanged_code : UnchangedCodes,
      b2r_only_contigs : {NONE, "contigs.txt"},
      genes_fa : {NONE, "genes.fa"},
      no_pair_merge : BOOLEAN,
      assemble_not_only_assembler : BOOLEAN,
      assembly : {"assembly.fasta"},
      reads : {"reads.fastq"},
      outdir : {"outdir"} ]

\* os.path.abspath(path) in the directory the program was started in
abspath(path) ==
    CASE path = "contigs.txt" -> "/start/contigs.txt"
      [] path = "genes.fa" -> "/start/genes.fa"
      [] path = "assembly.fasta" -> "/start/assembly.fasta"
      [] path = "reads.fastq" -> "/start/reads.fastq"
      [] OTHER -> path

\* an option that names a file is made absolute when it is given
\* (all.py lines 82-84, 91-92)
made_absolute(path) == IF path # NONE THEN abspath(path) ELSE path

\* all.py lines 81-87
files_to_check(options) ==
    {options.assembly, options.reads}
    \cup (IF options.b2r_only_contigs # NONE THEN {options.b2r_only_contigs} ELSE {})
    \cup (IF options.genes_fa # NONE THEN {options.genes_fa} ELSE {})

----------------------------------------------------------------------------
(* State *)

VARIABLES
    pc,                        \* the statement of run() that is executed next
    options,                   \* the parsed command line
    missing,                   \* the input files that do not exist
    outdir_at_start,           \* the output directory as the program finds it
    contig_ids,                \* the names listed in the file of --b2r_only_contigs, once it is read
    outdir_exists,             \* the output directory exists
    fs,                        \* the names present in the output directory
    written,                   \* the names this run has written, in order
    fasta,                     \* the record names of each FASTA file
    log_lines,                 \* the lines of the merge log
    list_files,                \* the bodies of the two contig list files
    cwd,                       \* the working directory of the process
    calls,                     \* the steps entered so far, with their inputs
    failed,                    \* the step that raised, or NONE
    contigs_to_keep,
    contigs_to_not_fix_start,
    number_of_input_contigs,
    final_number_of_contigs,
    number_circularized,
    exit_status,               \* the exit status of the process, -1 while it runs
    run,                       \* 1 in the first run of the program, 2 in a second run
    first_run                  \* how the first run ended, once a second run has started

vars == << pc, options, missing, outdir_at_start, contig_ids, outdir_exists, fs, written, fasta, log_lines,
           list_files, cwd, calls, failed, contigs_to_keep,
           contigs_to_not_fix_start, number_of_input_contigs,
           final_number_of_contigs, number_circularized, exit_status, run, first_run >>

\* what is known of an earlier run
earlier == << run, first_run >>
\* the variables of the file system
disk == << outdir_exists, fs, written, fasta, log_lines, list_files >>
\* the local variables of the classification and the summary
locals == << contigs_to_keep, contigs_to_not_fix_start, number_of_input_contigs,
             final_number_of_contigs, number_circularized >>

\* there has been no earlier run
NoFirst ==
    [ ended |-> FALSE, fs |-> {}, fasta |-> [f \in FastaFiles |-> {}],
      log_lines |-> <<>>,
      list_files |-> [f \in {clean_keep_file, not_fix_start_file} |-> <<>>],
      contig_ids |-> {}, contigs_to_keep |-> <<>>, contigs_to_not_fix_start |-> <<>>,
      number_of_input_contigs |-> 0, final_number_of_contigs |-> 0,
      number_circularized |-> 0, exit_status |-> -1 ]

Init ==
    /\ pc = "versions"
    /\ options \in OptionSets
    /\ missing \in SUBSET files_to_check(options)
    /\ outdir_exists \in BOOLEAN
    /\ fs = (IF outdir_exists THEN StaleFiles ELSE {})
    /\ outdir_at_start = [exists |-> outdir_exists, files |-> fs]
    /\ contig_ids = {}
    /\ written = <<>>
    /\ fasta = [f \in FastaFiles |-> {}]
    /\ log_lines = <<>>
    /\ list_files = [f \in {clean_keep_file, not_fix_start_file} |-> <<>>]
    /\ cwd = "/start"
    /\ calls = <<>>
    /\ failed = NONE
    /\ contigs_to_keep = <<>>
    /\ contigs_to_not_fix_start = <<>>
    /\ number_of_input_contigs = 0
    /\ final_number_of_contigs = 0
    /\ number_circularized = 0
    /\ exit_status = -1
    /\ run = 1
    /\ first_run = NoFirst

----------------------------------------------------------------------------
(* The collaborators, as the controller sees them *)

\* the file the BamFilter writes for an output prefix
BamFilterOutput(prefix, fastq_out) ==
    IF fastq_out THEN "02.bam2reads.fastq" ELSE "02.bam2reads.fasta"

\* the names listed in a file of contig names, one per line
ListedNames(body) == { l \in Range(split(body, NL)) : l # <<>> }

\* what the Cleaner may return: it removes contigs of the merged assembly,
\* but none that the keep file names
CleanerResults(merged, keepfile_body) ==
    { cleaned \in SUBSET merged : (merged \cap ListedNames(keepfile_body)) \subseteq cleaned }

\* what the StartFixer returns: every contig of its input, possibly rotated
StartFixerResult(cleaned) == cleaned

\* pyfastaq.tasks.filter(infile, outfile, ids_file=...): the records whose
\* name is listed
FilterResult(records, ids) == records \cap ids

\* pyfastaq.tasks.count_sequences(infile)
count_sequences(records) == Cardinality(records)

\* the logs the Merger is documented to write for a merged assembly: the
\* header, then one line per contig, its last field 1 or 0
ContractLogs(merged) ==
    LET n == Cardinality(merged)
        orders == { o \in [1..n -> merged] : \A i, j \in 1..n : o[i] = o[j] => i = j }
        flags == [merged -> { <<"0">>, <<"1">> }]
    IN  { << HeaderLine \o <<NL>> >> \o [i \in 1..n |-> DataLine(o[i], c[o[i]])] :
            o \in orders, c \in flags }

\* a collaborator of a second run finds what it found in the first run: the
\* output directory holds the files this run has written and no other, and
\* they are what they were in the first run
AsInFirstRun ==
    /\ fs = Range(written)
    /\ \A f \in FastaFiles \cap fs : fasta[f] = first_run.fasta[f]
    /\ merge_log \in fs => log_lines = first_run.log_lines
    /\ \A f \in {clean_keep_file, not_fix_start_file} \cap fs :
          list_files[f] = first_run.list_files[f]

\* the results a collaborator may give: any of the candidates, but in a
\* second run that finds what the first run found, the result it gave then
\* (the collaborators are deterministic)
Repeat(candidates, before) ==
    IF run = 2 /\ AsInFirstRun THEN candidates \cap {before} ELSE candidates

\* the names the file of --b2r_only_contigs may list; the file is the same
\* in a second run
ListedIds == IF run = 2 THEN {first_run.contig_ids} ELSE SUBSET Names

\* the files a step creates when it succeeds, in the order it creates them
Outputs(step, opts) ==
    CASE step = "info" -> <<info_file>>
      [] step = "to_fasta" -> <<original_assembly_renamed>>
      [] step = "mapreads" -> <<bam>>
      [] step = "bam2reads" -> <<BamFilterOutput(filtered_reads_prefix, opts.assemble_not_only_assembler)>>
      [] step = "assemble" -> <<assembly_dir>>
      [] step = "filter_assembly" -> <<filtered_assembly>>
      [] step = "merge" -> <<merged_fasta, merge_log>>
      [] step = "write_keep" -> <<clean_keep_file>>
      [] step = "write_not_fix" -> <<not_fix_start_file>>
      [] step = "clean" -> <<clean_fasta>>
      [] step = "fixstart" -> <<fixstart_fasta>>
      [] step = "all_finished" -> <<all_finished>>
      [] OTHER -> <<>>

\* the arguments that name files (all.py lines 128-279)
Inputs(step, opts) ==
    CASE step = "chdir" -> <<opts.outdir>>
      [] step = "to_fasta" -> <<abspath(opts.assembly)>>
      [] step = "mapreads" -> <<original_assembly_renamed, abspath(opts.reads)>>
      [] step = "bam2reads" -> <<bam, opts.b2r_only_contigs>>
      [] step = "assemble" -> <<filtered_reads(opts)>>
      [] step = "filter_assembly" -> <<original_assembly_renamed, opts.b2r_only_contigs>>
      [] step = "merge" -> <<assembly_to_use(opts), assembly_dir, merge_reads(opts)>>
      [] step = "classify" -> <<merge_log>>
      [] step = "clean" -> <<merged_fasta, clean_keep_file>>
      [] step = "fixstart" -> <<clean_fasta, not_fix_start_file, opts.genes_fa>>
      [] step = "count_input" -> <<original_assembly_renamed>>
      [] step = "count_final" -> <<fixstart_fasta>>
      [] OTHER -> <<>>

\* the output name or output prefix a step is given (all.py lines 111, 130,
\* 140, 151, 167, 200, 255, 272); NONE for the statements of run() that
\* write a file for a later stage or write nothing
OutPrefix(step) ==
    CASE step = "info" -> "00.info"
      [] step = "to_fasta" -> "00.input_assembly"
      [] step = "mapreads" -> "01.mapreads"
      [] step = "bam2reads" -> filtered_reads_prefix
      [] step = "assemble" -> assembly_dir
      [] step = "merge" -> merge_prefix
      [] step = "clean" -> clean_prefix
      [] step = "fixstart" -> fixstart_prefix
      [] OTHER -> NONE

\* the steps that call a collaborator which may raise
StageSteps ==
    { "to_fasta", "mapreads", "bam2reads", "assemble", "filter_assembly",
      "merge", "clean", "fixstart", "count_input", "count_final" }

----------------------------------------------------------------------------
(* The order of the statements of run() *)

\* the original assembly is filtered whether or not a list of contigs is given
AfterAssembleAlwaysFilters(opts) == "filter_assembly"

\* the original assembly is filtered when --b2r_only_contigs is given
\* (all.py lines 182-187)
AfterAssemble(opts) ==
    IF opts.b2r_only_contigs # NONE THEN "filter_assembly" ELSE "merge"

\* the output directory is made before the input files are looked for
NextStepMkdirFirst(step, opts) ==
    CASE step = "versions" -> "mkdir"
      [] step = "mkdir" -> "check_files"
      [] step = "check_files" -> "chdir"
      [] step = "chdir" -> "info"
      [] step = "info" -> "to_fasta"
      [] step = "to_fasta" -> "mapreads"
      [] step = "mapreads" -> "bam2reads"
      [] step = "bam2reads" -> "assemble"
      [] step = "assemble" ->
            (IF opts.b2r_only_contigs # NONE THEN "filter_assembly" ELSE "merge")
      [] step = "filter_assembly" -> "merge"
      [] step = "merge" -> "classify"
      [] step = "classify" -> "write_keep"
      [] step = "write_keep" -> "write_not_fix"
      [] step = "write_not_fix" -> "clean"
      [] step = "clean" -> "fixstart"
      [] step = "fixstart" -> "count_input"
      [] step = "count_input" -> "count_final"
      [] step = "count_final" -> "all_finished"
      [] step = "all_finished" -> "exit"
      [] step = "exit" -> "done"

\* the paths of the options are resolved after the assembly is normalized
NextStepResolvesLate(step, opts) ==
    CASE step = "versions" -> "mkdir"
      [] step = "mkdir" -> "chdir"
      [] step = "chdir" -> "info"
      [] step = "info" -> "to_fasta"
      [] step = "to_fasta" -> "check_files"
      [] step = "check_files" -> "mapreads"
      [] step = "mapreads" -> "bam2reads"
      [] step = "bam2reads" -> "assemble"
      [] step = "assemble" ->
            (IF opts.b2r_only_contigs # NONE THEN "filter_assembly" ELSE "merge")
      [] step = "filter_assembly" -> "merge"
      [] step = "merge" -> "classify"
      [] step = "classify" -> "write_keep"
      [] step = "write_keep" -> "write_not_fix"
      [] step = "write_not_fix" -> "clean"
      [] step = "clean" -> "fixstart"
      [] step = "fixstart" -> "count_input"
      [] step = "count_input" -> "count_final"
      [] step = "count_final" -> "all_finished"
      [] step = "all_finished" -> "exit"
      [] step = "exit" -> "done"

\* the two lists are written the other way round
NextStepListsSwapped(step, opts) ==
    CASE step = "versions" -> "check_files"
      [] step = "check_files" -> "mkdir"
      [] step = "mkdir" -> "chdir"
      [] step = "chdir" -> "info"
      [] step = "info" -> "to_fasta"
      [] step = "to_fasta" -> "mapreads"
      [] step = "mapreads" -> "bam2reads"
      [] step = "bam2reads" -> "assemble"
      [] step = "assemble" ->
            (IF opts.b2r_only_contigs # NONE THEN "filter_assembly" ELSE "merge")
      [] step = "filter_assembly" -> "merge"
      [] step = "merge" -> "classify"
      [] step = "classify" -> "write_not_fix"
      [] step = "write_not_fix" -> "write_keep"
      [] step = "write_keep" -> "clean"
      [] step = "clean" -> "fixstart"
      [] step = "fixstart" -> "count_input"
      [] step = "count_input" -> "count_final"
      [] step = "count_final" -> "all_finished"
      [] step = "all_finished" -> "exit"
      [] step = "exit" -> "done"

\* the statement that follows a statement that returned (all.py lines 74-294)
NextStep(step, opts) ==
    CASE step = "versions" -> "check_files"
      [] step = "check_files" -> "mkdir"
      [] step = "mkdir" -> "chdir"
      [] step = "chdir" -> "info"
      [] step = "info" -> "to_fasta"
      [] step = "to_fasta" -> "mapreads"
      [] step = "mapreads" -> "bam2reads"
      [] step = "bam2reads" -> "assemble"
      [] step = "assemble" -> AfterAssemble(opts)
      [] step = "filter_assembly" -> "merge"
      [] step = "merge" -> "classify"
      [] step = "classify" -> "write_keep"
      [] step = "write_keep" -> "write_not_fix"
      [] step = "write_not_fix" -> "clean"
      [] step = "clean" -> "fixstart"
      [] step = "fixstart" -> "count_input"
      [] step = "count_input" -> "count_final"
      [] step = "count_final" -> "all_finished"
      [] step = "all_finished" -> "exit"
      [] step = "exit" -> "done"

\* the exit status of a Python process that ends in an uncaught exception
UncaughtExceptionStatus == 1
\* sys.exit(1) after 'Error making output directory' (all.py line 107)
MkdirErrorStatus == 1
\* the exit status when run() returns
ReturnStatus == 0

\* a statement is entered: it is appended to the history with its inputs
Enter(step, inputs) == calls' = Append(calls, [step |-> step, inputs |-> inputs])

\* a statement returns
Return(step) ==
    /\ pc' = NextStep(step, options)
    /\ UNCHANGED << failed, exit_status >>

\* the end marker is written on the way out of a failed run as well
AfterRaiseMarksEnd(files) == files \cup {all_finished}

\* an exception handler that removes what the run has made
AfterRaiseRemoves(files) == {}

\* what an exception leaves of the output directory: run() has no handler
\* that removes anything (all.py lines 128-294)
AfterRaise(files) == files

\* the exception is caught and the run exits with the unchanged code
RaiseExitsUnchanged(step) ==
    /\ pc' = "aborted"
    /\ failed' = step
    /\ exit_status' = options.unchanged_code

\* a statement raises an exception that nothing catches
Raise(step) ==
    /\ pc' = "aborted"
    /\ failed' = step
    /\ exit_status' = UncaughtExceptionStatus

\* the names are created in the working directory, in this order
Write(names) ==
    /\ fs' = fs \cup Range(names)
    /\ written' = written \o names

----------------------------------------------------------------------------
(* Start of run(): lines 74-113 *)

\* circlator.versions.get_all_versions(..., raise_error=True) (lines 74-78)
Versions ==
    /\ pc = "versions"
    /\ Enter("versions", Inputs("versions", options))
    /\ \/ Return("versions")
       \/ Raise("versions")
    /\ UNCHANGED << earlier, options, missing, outdir_at_start, contig_ids, disk, cwd, locals >>

\* circlator.common.check_files_exist(filenames) returns (TRUE) when every
\* file is there and raises (FALSE) when one is absent
check_files_exist(filenames, absent) == filenames \cap absent = {}

\* lines 81-95: a named contig list is made absolute, then the input files
\* are checked, then the gene file is made absolute
CheckFiles ==
    /\ pc = "check_files"
    /\ Enter("check_files", Inputs("check_files", options))
    /\ IF ~check_files_exist(files_to_check(options), missing)
       THEN /\ Raise("check_files")
            /\ options' = [options EXCEPT !.b2r_only_contigs = made_absolute(@)]
       ELSE /\ Return("check_files")
            /\ options' = [options EXCEPT !.b2r_only_contigs = made_absolute(@),
                                          !.genes_fa = made_absolute(@)]
    /\ UNCHANGED << earlier, missing, outdir_at_start, contig_ids, disk, cwd, locals >>

\* the existing directory is used as it is
rmtree_skipped(files) == files

\* only the end marker of the earlier run is removed
rmtree_only_marker(files) == files \ {all_finished}

\* the content of the directory after shutil.rmtree and os.mkdir
\* (lines 101-102)
rmtree_then_mkdir(files) == {}

\* what shutil.rmtree may leave of the directory when it raises (line 101)
PartlyRemoved(files) ==
    { files \ gone : gone \in { g \in SUBSET files : Cardinality(g) <= MaxRemoved } }

\* the --force flag is not looked at: an existing directory is always replaced
MkdirCaseIgnoresForce(exists, force) ==
    IF ~exists THEN "create" ELSE "recreate"

\* what the first os.mkdir does (lines 97-107)
MkdirCase(exists, force) ==
    IF ~exists THEN "create"
    ELSE IF force THEN "recreate"
    ELSE "reraise"

\* lines 97-98: the directory does not exist and is created
MkdirCreates ==
    /\ pc = "mkdir"
    /\ MkdirCase(outdir_exists, options.force) = "create"
    /\ Enter("mkdir", Inputs("mkdir", options))
    /\ outdir_exists' = TRUE
    /\ fs' = {}
    /\ Return("mkdir")
    /\ UNCHANGED << earlier, options, missing, outdir_at_start, contig_ids, written, fasta, log_lines, list_files, cwd, locals >>

\* lines 105-107: os.mkdir raises something other than FileExistsError
MkdirError ==
    /\ pc = "mkdir"
    /\ MkdirCase(outdir_exists, options.force) = "create"
    /\ Enter("mkdir", Inputs("mkdir", options))
    /\ pc' = "exited"
    /\ failed' = "mkdir"
    /\ exit_status' = MkdirErrorStatus
    /\ UNCHANGED << earlier, options, missing, outdir_at_start, contig_ids, disk, cwd, locals >>

\* lines 99-104: the directory exists and --force is not given
MkdirExists ==
    /\ pc = "mkdir"
    /\ MkdirCase(outdir_exists, options.force) = "reraise"
    /\ Enter("mkdir", Inputs("mkdir", options))
    /\ Raise("mkdir")
    /\ UNCHANGED << earlier, options, missing, outdir_at_start, contig_ids, disk, cwd, locals >>

\* lines 99-102: the directory exists and --force is given
MkdirForce ==
    /\ pc = "mkdir"
    /\ MkdirCase(outdir_exists, options.force) = "recreate"
    /\ Enter("mkdir", Inputs("mkdir", options))
    /\ \/ \* shutil.rmtree and os.mkdir succeed
          /\ outdir_exists' = TRUE
          /\ fs' = rmtree_then_mkdir(fs)
          /\ Return("mkdir")
       \/ \* shutil.rmtree raises, having removed some of the files
          /\ outdir_exists' = TRUE
          /\ fs' \in PartlyRemoved(fs)
          /\ Raise("mkdir")
       \/ \* shutil.rmtree succeeds and os.mkdir raises
          /\ outdir_exists' = FALSE
          /\ fs' = {}
          /\ Raise("mkdir")
    /\ \* the files that are removed have no content any more
       /\ fasta' = [f \in FastaFiles |-> IF f \in fs' THEN fasta[f] ELSE {}]
       /\ log_lines' = (IF merge_log \in fs' THEN log_lines ELSE <<>>)
       /\ list_files' = [f \in {clean_keep_file, not_fix_start_file} |->
                            IF f \in fs' THEN list_files[f] ELSE <<>>]
    /\ UNCHANGED << earlier, options, missing, outdir_at_start, contig_ids, written, cwd, locals >>

\* the working directory is left as it is
chdir_nowhere(current, path) == current

\* the working directory after os.chdir(path), for a path relative to the
\* current one (line 109)
chdir(current, path) ==
    CASE current = "/start" /\ path = "outdir" -> "/start/outdir"
      [] OTHER -> path

\* line 109
Chdir ==
    /\ pc = "chdir"
    /\ Enter("chdir", Inputs("chdir", options))
    /\ cwd' = chdir(cwd, options.outdir)
    /\ Return("chdir")
    /\ UNCHANGED << earlier, options, missing, outdir_at_start, contig_ids, disk, locals >>

\* lines 111-113: the command line and the versions are written
Info ==
    /\ pc = "info"
    /\ Enter("info", Inputs("info", options))
    /\ Write(Outputs("info", options))
    /\ \/ Return("info")
       \/ Raise("info")
    /\ UNCHANGED << earlier, options, missing, outdir_at_start, contig_ids, outdir_exists, fasta, log_lines, list_files, cwd, locals >>

----------------------------------------------------------------------------
(* The stages: lines 128-279 *)

\* a collaborator raises, having written some of its files; nothing is
\* caught and nothing is removed
StageRaises ==
    /\ pc \in StageSteps
    /\ Enter(pc, Inputs(pc, options))
    /\ \E n \in 0..Len(Outputs(pc, options)) :
          /\ fs' = AfterRaise(fs \cup Range(SubSeq(Outputs(pc, options), 1, n)))
          /\ written' = written \o SubSeq(Outputs(pc, options), 1, n)
    /\ Raise(pc)
    /\ UNCHANGED << earlier, options, missing, outdir_at_start, contig_ids, outdir_exists, fasta, log_lines, list_files, cwd, locals >>

\* lines 128-133: the assembly is rewritten with unique, trimmed names
ToFasta ==
    /\ pc = "to_fasta"
    /\ Enter(pc, Inputs(pc, options))
    /\ Write(Outputs(pc, options))
    /\ \E records \in Repeat(SUBSET Names, first_run.fasta[original_assembly_renamed]) :
          fasta' = [fasta EXCEPT ![original_assembly_renamed] = records]
    /\ Return(pc)
    /\ UNCHANGED << earlier, options, missing, outdir_at_start, contig_ids, outdir_exists, log_lines, list_files, cwd, locals >>

\* a collaborator that only writes its files returns
Stage(step) ==
    /\ pc = step
    /\ Enter(step, Inputs(step, options))
    /\ Write(Outputs(step, options))
    /\ Return(step)
    /\ UNCHANGED << earlier, options, missing, outdir_at_start, contig_ids, outdir_exists, fasta, log_lines, list_files, cwd, locals >>

\* lines 137-144: circlator.mapping.bwa_mem
Mapreads == Stage("mapreads")

\* lines 149-160: circlator.bamfilter.BamFilter
Bam2reads == Stage("bam2reads")

\* lines 165-178: circlator.assemble.Assembler
Assemble == Stage("assemble")

\* lines 182-185: the contigs named by --b2r_only_contigs
FilterAssembly ==
    /\ pc = "filter_assembly"
    /\ Enter(pc, Inputs(pc, options))
    /\ Write(Outputs(pc, options))
    /\ \E ids \in ListedIds :
          /\ contig_ids' = ids
          /\ fasta' = [fasta EXCEPT ![filtered_assembly] =
                           FilterResult(fasta[original_assembly_renamed], ids)]
    /\ Return(pc)
    /\ UNCHANGED << earlier, options, missing, outdir_at_start, outdir_exists, log_lines, list_files, cwd, locals >>

\* lines 197-221: circlator.merge.Merger writes the merged assembly and
\* the log of its contigs, or returns without having left a log
Merge ==
    /\ pc = "merge"
    /\ Enter(pc, Inputs(pc, options))
    /\ \E merged \in Repeat(SUBSET Names, first_run.fasta[merged_fasta]) :
          /\ fasta' = [fasta EXCEPT ![merged_fasta] = merged]
          /\ \/ /\ TRUE \in Repeat(BOOLEAN, merge_log \in first_run.fs)
                /\ Write(Outputs(pc, options))
                /\ log_lines' \in Repeat(ContractLogs(merged), first_run.log_lines)
             \/ /\ FALSE \in Repeat(BOOLEAN, merge_log \in first_run.fs)
                /\ Write(<<merged_fasta>>)
                /\ log_lines' = <<>>
    /\ Return(pc)
    /\ UNCHANGED << earlier, options, missing, outdir_at_start, contig_ids, outdir_exists, list_files, cwd, locals >>

----------------------------------------------------------------------------
(* Classification, clean, fixstart, summary: lines 225-294 *)

\* lines 225-239: the merge log is opened and read
ClassifyLog ==
    /\ pc = "classify"
    /\ Enter("classify", Inputs("classify", options))
    /\ IF merge_log \notin fs
       THEN \* open() raises FileNotFoundError
            /\ Raise("classify")
            /\ UNCHANGED << contigs_to_keep, contigs_to_not_fix_start >>
       ELSE LET lists == Classify(log_lines)
            IN  /\ contigs_to_keep' = lists.keep
                /\ contigs_to_not_fix_start' = lists.not_fix
                /\ IF lists.ok THEN Return("classify") ELSE Raise("classify")
    /\ UNCHANGED << earlier, options, missing, outdir_at_start, contig_ids, disk, cwd, number_of_input_contigs,
                    final_number_of_contigs, number_circularized >>

\* the file is made only for a list that has names
OpenedIfAny(file, names) == IF Len(names) > 0 THEN <<file>> ELSE <<>>

\* the file that open(file, 'w') makes, before the list is looked at
\* (lines 242-243, 247-248)
Opened(file, names) == <<file>>

\* lines 241-244: the file is opened and written, or open() raises
WriteKeep ==
    /\ pc = "write_keep"
    /\ Enter("write_keep", Inputs("write_keep", options))
    /\ \/ /\ Write(Opened(clean_keep_file, contigs_to_keep))
          /\ list_files' = [list_files EXCEPT ![clean_keep_file] = ListFileBody(contigs_to_keep)]
          /\ Return("write_keep")
       \/ /\ Raise("write_keep")
          /\ UNCHANGED << fs, written, list_files >>
    /\ UNCHANGED << earlier, options, missing, outdir_at_start, contig_ids, outdir_exists, fasta, log_lines, cwd, locals >>

\* lines 246-249: the file is opened and written, or open() raises
WriteNotFix ==
    /\ pc = "write_not_fix"
    /\ Enter("write_not_fix", Inputs("write_not_fix", options))
    /\ \/ /\ Write(Opened(not_fix_start_file, contigs_to_not_fix_start))
          /\ list_files' = [list_files EXCEPT ![not_fix_start_file] =
                                ListFileBody(contigs_to_not_fix_start)]
          /\ Return("write_not_fix")
       \/ /\ Raise("write_not_fix")
          /\ UNCHANGED << fs, written, list_files >>
    /\ UNCHANGED << earlier, options, missing, outdir_at_start, contig_ids, outdir_exists, fasta, log_lines, cwd, locals >>

\* lines 253-265: circlator.clean.Cleaner
Clean ==
    /\ pc = "clean"
    /\ Enter(pc, Inputs(pc, options))
    /\ Write(Outputs(pc, options))
    /\ \E cleaned \in Repeat(CleanerResults(fasta[merged_fasta], list_files[clean_keep_file]),
                            first_run.fasta[clean_fasta]) :
          fasta' = [fasta EXCEPT ![clean_fasta] = cleaned]
    /\ Return(pc)
    /\ UNCHANGED << earlier, options, missing, outdir_at_start, contig_ids, outdir_exists, log_lines, list_files, cwd, locals >>

\* lines 270-279: circlator.start_fixer.StartFixer
Fixstart ==
    /\ pc = "fixstart"
    /\ Enter(pc, Inputs(pc, options))
    /\ Write(Outputs(pc, options))
    /\ fasta' = [fasta EXCEPT ![fixstart_fasta] = StartFixerResult(fasta[clean_fasta])]
    /\ Return(pc)
    /\ UNCHANGED << earlier, options, missing, outdir_at_start, contig_ids, outdir_exists, log_lines, list_files, cwd, locals >>

\* line 283
CountInput ==
    /\ pc = "count_input"
    /\ Enter(pc, Inputs(pc, options))
    /\ number_of_input_contigs' = count_sequences(fasta[original_assembly_renamed])
    /\ Return(pc)
    /\ UNCHANGED << earlier, options, missing, outdir_at_start, contig_ids, disk, cwd, contigs_to_keep,
                    contigs_to_not_fix_start, final_number_of_contigs, number_circularized >>

\* every contig of the log is counted as circularized
NumberCircularizedAll(keep) == Len(keep) + Len(contigs_to_not_fix_start)

\* line 285
NumberCircularized(keep) == Len(keep)

\* lines 284-285
CountFinal ==
    /\ pc = "count_final"
    /\ Enter(pc, Inputs(pc, options))
    /\ final_number_of_contigs' = count_sequences(fasta[fixstart_fasta])
    /\ number_circularized' = NumberCircularized(contigs_to_keep)
    /\ Return(pc)
    /\ UNCHANGED << earlier, options, missing, outdir_at_start, contig_ids, disk, cwd, contigs_to_keep,
                    contigs_to_not_fix_start, number_of_input_contigs >>

\* lines 290-291: the empty file that marks the end of the run
AllFinished ==
    /\ pc = "all_finished"
    /\ Enter("all_finished", Inputs("all_finished", options))
    /\ Write(Outputs("all_finished", options))
    /\ Return("all_finished")
    /\ UNCHANGED << earlier, options, missing, outdir_at_start, contig_ids, outdir_exists, fasta, log_lines, list_files, cwd, locals >>

\* either condition alone selects the unchanged code
ExitStatusEither(n_input, n_final, n_circularized, unchanged_code) ==
    IF n_input = n_final \/ n_circularized = 0 THEN unchanged_code ELSE ReturnStatus

\* lines 293-294: the exit status of a run that got to the end
ExitStatus(n_input, n_final, n_circularized, unchanged_code) ==
    IF n_input = n_final /\ n_circularized = 0 THEN unchanged_code ELSE ReturnStatus

\* lines 293-294
Exit ==
    /\ pc = "exit"
    /\ Enter("exit", Inputs("exit", options))
    /\ pc' = NextStep("exit", options)
    /\ exit_status' = ExitStatus(number_of_input_contigs, final_number_of_contigs,
                                 number_circularized, options.unchanged_code)
    /\ UNCHANGED << earlier, options, missing, outdir_at_start, contig_ids, disk, cwd, failed, locals >>

----------------------------------------------------------------------------
(* Specifications *)

\* the statements from the classification on
Finishing ==
    \/ ClassifyLog
    \/ WriteKeep
    \/ WriteNotFix
    \/ Clean
    \/ Fixstart
    \/ CountInput
    \/ CountFinal
    \/ AllFinished
    \/ Exit
    \/ StageRaises

Next ==
    \/ Versions
    \/ CheckFiles
    \/ MkdirCreates
    \/ MkdirError
    \/ MkdirExists
    \/ MkdirForce
    \/ Chdir
    \/ Info
    \/ ToFasta
    \/ Mapreads
    \/ Bam2reads
    \/ Assemble
    \/ FilterAssembly
    \/ Merge
    \/ Finishing

\* run() from its first statement, the Merger writing the log it is
\* documented to write
Spec == Init /\ [][Next]_vars

\* the steps from first to the one before last, with their inputs
RECURSIVE CallsBefore(_, _, _)
CallsBefore(first, last, opts) ==
    IF first = last THEN <<>>
    ELSE << [step |-> first, inputs |-> Inputs(first, opts)] >>
         \o CallsBefore(NextStep(first, opts), last, opts)

\* the files written by the steps from first to the one before last
RECURSIVE WrittenBefore(_, _, _)
WrittenBefore(first, last, opts) ==
    IF first = last THEN <<>>
    ELSE Outputs(first, opts) \o WrittenBefore(NextStep(first, opts), last, opts)

\* the command line with every option left at its default
DefaultOptions ==
    [ force |-> FALSE, unchanged_code |-> 0, b2r_only_contigs |-> NONE,
      genes_fa |-> NONE, no_pair_merge |-> FALSE,
      assemble_not_only_assembler |-> FALSE, assembly |-> "assembly.fasta",
      reads |-> "reads.fastq", outdir |-> "outdir" ]

\* the state in which the Merger has returned, in a run with the default
\* options on an assembly of all the contigs, the merge log being any text
\* of at most MaxLines lines or absent
InitMerged ==
    /\ pc = "classify"
    /\ options = DefaultOptions
    /\ missing = {}
    /\ outdir_at_start = [exists |-> FALSE, files |-> {}]
    /\ contig_ids = {}
    /\ outdir_exists = TRUE
    /\ written \in { WrittenBefore("versions", "classify", options),
                     SubSeq(WrittenBefore("versions", "classify", options), 1,
                            Len(WrittenBefore("versions", "classify", options)) - 1) }
    /\ fs = Range(written)
    /\ \E merged \in SUBSET Names :
          fasta = [f \in FastaFiles |->
                      IF f = original_assembly_renamed THEN Names
                      ELSE IF f = merged_fasta THEN merged ELSE {}]
    /\ log_lines \in (IF merge_log \in fs THEN Logs ELSE { <<>> })
    /\ list_files = [f \in {clean_keep_file, not_fix_start_file} |-> <<>>]
    /\ cwd = "/start/outdir"
    /\ calls = CallsBefore("versions", "classify", options)
    /\ failed = NONE
    /\ contigs_to_keep = <<>>
    /\ contigs_to_not_fix_start = <<>>
    /\ number_of_input_contigs = 0
    /\ final_number_of_contigs = 0
    /\ number_circularized = 0
    /\ exit_status = -1
    /\ run = 1
    /\ first_run = NoFirst

\* run() from the classification on, for any merge log
SpecAnyLog == InitMerged /\ [][Finishing]_vars

\* a path of the command line as it was typed
as_given(path) ==
    CASE path = "/start/contigs.txt" -> "contigs.txt"
      [] path = "/start/genes.fa" -> "genes.fa"
      [] OTHER -> path

\* the program has run to its end and is started again, in the same
\* directory, with the same command line and the same input files; the
\* output directory is as the first run left it
Restart ==
    /\ pc = "done"
    /\ run = 1
    /\ run' = 2
    /\ first_run' =
          [ ended |-> TRUE, fs |-> fs, fasta |-> fasta, log_lines |-> log_lines,
            list_files |-> list_files, contig_ids |-> contig_ids,
            contigs_to_keep |-> contigs_to_keep,
            contigs_to_not_fix_start |-> contigs_to_not_fix_start,
            number_of_input_contigs |-> number_of_input_contigs,
            final_number_of_contigs |-> final_number_of_contigs,
            number_circularized |-> number_circularized,
            exit_status |-> exit_status ]
    /\ pc' = "versions"
    /\ options' = [options EXCEPT !.b2r_only_contigs = as_given(@),
                                  !.genes_fa = as_given(@)]
    /\ outdir_at_start' = [exists |-> outdir_exists, files |-> fs]
    /\ written' = <<>>
    /\ cwd' = "/start"
    /\ calls' = <<>>
    /\ failed' = NONE
    /\ contigs_to_keep' = <<>>
    /\ contigs_to_not_fix_start' = <<>>
    /\ number_of_input_contigs' = 0
    /\ final_number_of_contigs' = 0
    /\ number_circularized' = 0
    /\ exit_status' = -1
    /\ UNCHANGED << missing, contig_ids, outdir_exists, fs, fasta, log_lines, list_files >>

\* the first of two runs: every input file is there; the options that do
\* not bear on a second run are left at their defaults
InitTwice ==
    /\ Init
    /\ missing = {}
    /\ options.genes_fa = NONE
    /\ ~options.no_pair_merge
    /\ ~options.assemble_not_only_assembler

NextTwice == Next \/ Restart

\* run() twice in succession on the same output directory
SpecTwice == InitTwice /\ [][NextTwice]_vars

----------------------------------------------------------------------------
(* Properties *)

\* the steps entered so far
Steps == [i \in 1..Len(calls) |-> calls[i].step]

\* the step has been entered
Entered(step) == \E i \in 1..Len(calls) : calls[i].step = step

\* the run has ended without reaching the end of run()
Stopped == pc \in {"aborted", "exited"}

\* os.mkdir (or shutil.rmtree and os.mkdir) has returned
MkdirReturned == pc = "chdir" \/ Entered("chdir")

\* the statements of run() in the order of the stages: the checks before
\* INIT; INIT (mkdir, chdir, info, to_fasta); MAP; FILTER_READS; ASSEMBLE;
\* FILTER_ASSEMBLY_BY_CONTIGS; MERGE; CLASSIFY (classify, write_keep,
\* write_not_fix); CLEAN; FIXSTART; SUMMARIZE (count_input, count_final,
\* all_finished); DONE (exit)
StageOrder ==
    << "versions", "check_files",
       "mkdir", "chdir", "info", "to_fasta",
       "mapreads", "bam2reads", "assemble",
       "filter_assembly",
       "merge",
       "classify", "write_keep", "write_not_fix",
       "clean", "fixstart",
       "count_input", "count_final", "all_finished",
       "exit" >>

IsRequired(step) == step # "filter_assembly"

\* the steps of a complete run with the options of this run
ExpectedSteps ==
    IF options.b2r_only_contigs # NONE THEN StageOrder
    ELSE SelectSeq(StageOrder, IsRequired)

\* C1: the steps entered so far are an initial part of the fixed order (so
\* none is skipped but the optional filtering of the assembly, none is
\* entered twice and none out of turn); a step that raised is the last one
\* entered; the step to enter next is the next of the order; and a run that
\* reaches the end has entered them all.
C1_FixedOrder ==
    /\ Len(calls) <= Len(ExpectedSteps)
    /\ Steps = SubSeq(ExpectedSteps, 1, Len(calls))
    /\ failed # NONE => Len(calls) > 0 /\ Steps[Len(calls)] = failed
    /\ pc = "done" => Steps = ExpectedSteps
    /\ pc \notin {"aborted", "exited", "done"} =>
          /\ failed = NONE
          /\ Len(calls) < Len(ExpectedSteps)
          /\ pc = ExpectedSteps[Len(calls) + 1]

\* a run with a list of contigs has reached the end
C1_Witness == pc = "done" /\ Entered("filter_assembly")

\* C2: once a step has failed the run has stopped, the failed step is the
\* last one entered, and everything the run wrote is still in the output
\* directory.
C2_AbortKeepsArtifacts ==
    failed # NONE =>
        /\ Stopped
        /\ exit_status # -1
        /\ Steps[Len(calls)] = failed
        /\ Range(written) \subseteq fs

\* the Cleaner has failed; the merged assembly and the keep list are there
C2_Witness ==
    /\ failed = "clean"
    /\ {info_file, original_assembly_renamed, merged_fasta, clean_keep_file} \subseteq fs

\* C3: when the output directory exists at the start and --force is not
\* given, the run writes nothing, the directory keeps its content, no step
\* after the making of the directory is entered, and when the making of
\* the directory is reached it fails and the run stops with a status that
\* is not 0.
C3_ExistingWithoutForce ==
    (outdir_at_start.exists /\ ~options.force) =>
        /\ written = <<>>
        /\ outdir_exists
        /\ fs = outdir_at_start.files
        /\ cwd = "/start"
        /\ Range(Steps) \subseteq {"versions", "check_files", "mkdir"}
        /\ pc \in {"versions", "check_files", "mkdir", "aborted"}
        /\ Entered("mkdir") => pc = "aborted" /\ failed = "mkdir" /\ exit_status > 0

\* the run has stopped at an existing directory that holds files
C3_Witness ==
    /\ outdir_at_start.exists
    /\ ~options.force
    /\ failed = "mkdir"
    /\ fs = StaleFiles

\* C4: when the output directory exists at the start and --force is given,
\* the directory is empty when 00.info.txt is about to be written, and from
\* the moment the directory has been made again it holds only what this
\* run wrote.
C4_ForceResets ==
    (outdir_at_start.exists /\ options.force) =>
        /\ pc = "info" => fs = {} /\ outdir_exists
        /\ MkdirReturned => fs = Range(written)

\* a forced run over a directory with an old end marker has failed in the
\* Merger, and the old marker is gone
C4_Witness ==
    /\ options.force
    /\ outdir_at_start.files = StaleFiles
    /\ failed = "merge"
    /\ fs \cap {stale_file, all_finished} = {}

\* C5: the exit status of a run that reaches the end (the value handed to
\* sys.exit, or 0 when run() returns) is the unchanged code when the final
\* assembly has as many sequences as the normalized original assembly and
\* no contig was put into the keep list, and 0 otherwise.
C5_ExitCode ==
    pc = "done" =>
        exit_status =
            IF /\ Cardinality(fasta[fixstart_fasta]) = Cardinality(fasta[original_assembly_renamed])
               /\ Len(contigs_to_keep) = 0
            THEN options.unchanged_code
            ELSE 0

\* an unchanged run with a list of contigs that left out a contig
C5_Witness ==
    /\ pc = "done"
    /\ options.unchanged_code # 0
    /\ exit_status = options.unchanged_code
    /\ options.b2r_only_contigs # NONE
    /\ Cardinality(fasta[filtered_assembly]) < Cardinality(fasta[original_assembly_renamed])

\* the classification has returned
AfterClassify == pc = "write_keep" \/ Entered("write_keep")

\* the line carries the line tag
Tagged(line) == Len(line) >= 2 /\ line[1] = LineTag /\ line[2] = TAB

\* the line without its trailing whitespace is the header
IsHeader(line) == rstrip(line) = HeaderLine

\* the lines of the log that carry the tag and are not the header
LoggedLines == { i \in 1..Len(log_lines) : Tagged(log_lines[i]) /\ ~IsHeader(log_lines[i]) }

\* the fields of a line once its trailing whitespace is stripped
StrippedFields(line) == split(rstrip(line), TAB)

\* the contig names of the logged lines
LoggedNames == { StrippedFields(log_lines[i])[2] : i \in LoggedLines }

\* whether the sixth field is "1", for each logged line of a name
Marks(name) ==
    { StrippedFields(log_lines[i])[6] = <<"1">> :
        i \in { j \in LoggedLines : StrippedFields(log_lines[j])[2] = name } }

\* C6 as stated: after the classification every name of a logged line is in
\* exactly one of the keep list and the do-not-rotate list, whatever the log.
C6_ExactlyOneList ==
    AfterClassify =>
        \A name \in LoggedNames :
            (name \in Range(contigs_to_keep)) # (name \in Range(contigs_to_not_fix_start))

\* C6 as amended: after the classification a name of a logged line is in
\* the keep list exactly when one of its lines has "1" as its sixth field
\* and in the do-not-rotate list exactly when one of its lines has not; so
\* it is in at least one list, and in exactly one when its lines agree (in
\* particular when it occurs on one line).
C6_OneListWhenLinesAgree ==
    AfterClassify =>
        \A name \in LoggedNames :
            /\ name \in Range(contigs_to_keep) <=> TRUE \in Marks(name)
            /\ name \in Range(contigs_to_not_fix_start) <=> FALSE \in Marks(name)
            /\ name \in Range(contigs_to_keep) \cup Range(contigs_to_not_fix_start)
            /\ Cardinality(Marks(name)) = 1 =>
                  ~(/\ name \in Range(contigs_to_keep)
                    /\ name \in Range(contigs_to_not_fix_start))

\* a log with a circularised and a not circularised contig has been classified
C6_Witness ==
    /\ AfterClassify
    /\ Range(contigs_to_keep) = { <<"ctgA">> }
    /\ Range(contigs_to_not_fix_start) = { <<"ctgB">> }

\* C7 as stated: the classification returns only for a log that is there,
\* starts with the header, and has only tagged lines, each but the header
\* of six fields.
C7_MalformedIsFatal ==
    AfterClassify =>
        /\ merge_log \in fs
        /\ Len(log_lines) >= 1
        /\ IsHeader(log_lines[1])
        /\ \A i \in 1..Len(log_lines) :
              /\ Tagged(log_lines[i])
              /\ ~IsHeader(log_lines[i]) => Len(StrippedFields(log_lines[i])) = 6

\* C7 as amended: the classification returns only for a log that is there
\* and whose tagged lines other than the header have six fields once the
\* trailing whitespace is stripped; it fails only for a log that is not
\* there or has a tagged line that is not so; and after it has failed the
\* lists are not written and the Cleaner is not entered.
C7_MissingOrShortLineIsFatal ==
    /\ AfterClassify =>
          /\ merge_log \in fs
          /\ \A i \in LoggedLines : Len(StrippedFields(log_lines[i])) = 6
    /\ failed = "classify" =>
          /\ \/ merge_log \notin fs
             \/ \E i \in LoggedLines : Len(StrippedFields(log_lines[i])) # 6
          /\ ~Entered("write_keep")
          /\ ~Entered("clean")
          /\ clean_keep_file \notin fs
    /\ (/\ Entered("classify")
        /\ merge_log \in fs
        /\ \A i \in LoggedLines : Len(StrippedFields(log_lines[i])) = 6) => AfterClassify

\* the classification has failed on a line that follows a good header
C7_Witness ==
    /\ failed = "classify"
    /\ merge_log \in fs
    /\ Len(log_lines) = 2
    /\ log_lines[1] = HeaderLine \o <<NL>>

\* C8: the end marker is written by this run only as its last file, after
\* the six stages and the two counts have been entered and none has
\* failed; a run that stopped has not written it, and when it had made its
\* directory the marker is not there.
C8_EndMarkerLast ==
    /\ all_finished \in Range(written) =>
          /\ written[Len(written)] = all_finished
          /\ Cardinality({ i \in 1..Len(written) : written[i] = all_finished }) = 1
          /\ failed = NONE
          /\ pc \in {"exit", "done"}
          /\ { "mapreads", "bam2reads", "assemble", "merge", "clean", "fixstart",
               "count_input", "count_final" } \subseteq Range(Steps)
          /\ { bam, assembly_dir, merged_fasta, clean_fasta, fixstart_fasta } \subseteq fs
    /\ Stopped => all_finished \notin Range(written)
    /\ (Stopped /\ MkdirReturned) => all_finished \notin fs
    /\ pc = "done" => all_finished \in fs /\ written[Len(written)] = all_finished

\* a forced run over a directory with an old end marker has written its own
C8_Witness ==
    /\ pc = "done"
    /\ all_finished \in outdir_at_start.files
    /\ written[Len(written)] = all_finished

\* C9: a run that stopped has an exit status greater than 0, whatever the
\* unchanged code; while the run goes on there is no exit status; so the
\* exit status 0 is that of a run that reached the end.
C9_FailureIsNonZero ==
    /\ Stopped => exit_status > 0
    /\ pc \notin {"aborted", "exited", "done"} => exit_status = -1
    /\ exit_status = 0 => pc = "done"

\* an input file is missing in a run whose unchanged code is 0
C9_Witness ==
    /\ failed = "check_files"
    /\ options.unchanged_code = 0
    /\ exit_status = UncaughtExceptionStatus

\* C10: in a run that reached the end, the circularized count of the
\* summary is the length of the keep list, the final count is the number of
\* sequences StartFixer wrote, and the first is at most the second.
C10_CircularizedAtMostFinal ==
    pc = "done" =>
        /\ number_circularized = Len(contigs_to_keep)
        /\ final_number_of_contigs = Cardinality(fasta[fixstart_fasta])
        /\ number_circularized <= final_number_of_contigs

\* the Cleaner removed the contig that was not circularised: the counts are equal
C10_Witness ==
    /\ pc = "done"
    /\ Cardinality(fasta[merged_fasta]) = 2
    /\ number_circularized = 1
    /\ final_number_of_contigs = 1

\* the step that writes a name
Writer(name) ==
    CHOOSE step \in Range(StageOrder) : name \in Range(Outputs(step, options))

\* the artifacts of a complete run with the options of this run, in the
\* order in which they are created
ExpectedArtifacts ==
    << "00.info.txt", "00.input_assembly.fasta", "01.mapreads.bam",
       IF options.assemble_not_only_assembler THEN "02.bam2reads.fastq"
                                              ELSE "02.bam2reads.fasta",
       "03.assemble" >>
    \o (IF options.b2r_only_contigs # NONE
        THEN << "04.merge.00.filtered_assembly.fa" >> ELSE <<>>)
    \o << "04.merge.fasta", "04.merge.circularise.log",
          "05.clean.contigs_to_keep", "06.fixstart.contigs_to_not_change",
          "05.clean.fasta", "06.fixstart.fasta", "06.fixstart.ALL_FINISHED" >>

\* C11 as stated: an artifact created later never has a lower stage index
\* than one created earlier, and every artifact carries the index and role
\* prefix of the step that writes it.
C11_IncreasingOwnNames ==
    /\ \A i, j \in 1..Len(written) :
          i < j => StageIndex(written[i]) <= StageIndex(written[j])
    /\ \A i \in 1..Len(written) :
          RolePrefix(written[i]) = OutPrefix(Writer(written[i]))

\* C11 as amended: the artifacts created so far are an initial part of one
\* fixed order, in which the stage index never goes down from one artifact
\* to the next but from the do-not-rotate list (06) to the Cleaner's
\* assembly (05), which follows it; an artifact written by a collaborator
\* carries the prefix that collaborator was given, and an artifact written
\* by run() itself carries the prefix of the stage that reads it (the end
\* marker, which no stage reads, that of the last stage); this is looked
\* at for the step entered last.
C11_FixedNameOrder ==
    LET expected == ExpectedArtifacts
        made == Range(written)
    IN  /\ Len(written) <= Len(expected)
        /\ written = SubSeq(expected, 1, Len(written))
        /\ pc = "done" => written = expected
        /\ \A i \in 1..(Len(written) - 1) :
              \/ StageIndex(written[i]) <= StageIndex(written[i + 1])
              \/ written[i] = not_fix_start_file /\ written[i + 1] = clean_fasta
        /\ clean_fasta \in made => not_fix_start_file \in made
        /\ Len(calls) > 0 =>
              \* the step entered last: every step is so in the state it leads to
              LET step == calls[Len(calls)].step
              IN  \A name \in Range(Outputs(step, options)) \cap made :
                      IF OutPrefix(step) # NONE
                      THEN RolePrefix(name) = OutPrefix(step)
                      ELSE \/ \E reader \in Range(StageOrder) :
                                 /\ name \in Range(Inputs(reader, options))
                                 /\ RolePrefix(name) = OutPrefix(reader)
                           \/ name = all_finished /\ RolePrefix(name) = fixstart_prefix

\* a run with a list of contigs has created all its artifacts
C11_Witness ==
    /\ pc = "done"
    /\ options.b2r_only_contigs # NONE
    /\ Len(written) = 13
    /\ written[6] = filtered_assembly
    /\ written[10] = not_fix_start_file
    /\ written[11] = clean_fasta

\* the calls of a step made so far
CallsOf(step) == { i \in 1..Len(calls) : calls[i].step = step }

\* C12: when the Merger is invoked in a run with a list of contigs, its
\* reference is the filtered assembly, which was written before by
\* filtering the normalized original assembly with the list and holds the
\* contigs of that assembly the list names, and the Mapper was invoked on
\* the normalized original assembly; in a run without a list of contigs
\* the reference is the normalized original assembly and no filtered
\* assembly is ever created.
C12_MergeReference ==
    /\ \A i \in CallsOf("merge") :
          IF options.b2r_only_contigs # NONE
          THEN /\ calls[i].inputs[1] = filtered_assembly
               /\ filtered_assembly \in Range(written)
               /\ fasta[filtered_assembly] = fasta[original_assembly_renamed] \cap contig_ids
               /\ \E j \in CallsOf("filter_assembly") :
                     /\ j < i
                     /\ calls[j].inputs = <<original_assembly_renamed, options.b2r_only_contigs>>
               /\ \E j \in CallsOf("mapreads") :
                     /\ j < i
                     /\ calls[j].inputs[1] = original_assembly_renamed
          ELSE calls[i].inputs[1] = original_assembly_renamed
    /\ options.b2r_only_contigs = NONE =>
          /\ filtered_assembly \notin Range(written)
          /\ CallsOf("filter_assembly") = {}
          /\ MkdirReturned => filtered_assembly \notin fs

\* the Merger has run on a reference that lacks a contig of the original
\* assembly, which the list did not name
C12_Witness ==
    /\ Entered("classify")
    /\ options.b2r_only_contigs # NONE
    /\ fasta[original_assembly_renamed] = Names
    /\ contig_ids = { <<"ctgA">> }
    /\ fasta[filtered_assembly] = { <<"ctgA">> }

\* C13: when one of the files the command line names (the assembly, the
\* reads, the list of contigs, the gene file) does not exist, nothing is
\* written, the output directory is as it was found (absent, or present
\* with its content, with or without --force), the working directory is
\* unchanged, no step after the check of the files is entered, and the
\* check of the files, once entered, has stopped the run with a status
\* that is not 0.
C13_MissingInputAborts ==
    missing # {} =>
        /\ written = <<>>
        /\ outdir_exists = outdir_at_start.exists
        /\ fs = outdir_at_start.files
        /\ cwd = "/start"
        /\ Range(Steps) \subseteq {"versions", "check_files"}
        /\ pc \in {"versions", "check_files", "aborted"}
        /\ Entered("check_files") =>
              pc = "aborted" /\ failed = "check_files" /\ exit_status > 0

\* a forced run over an existing directory has stopped because only the
\* gene file is missing
C13_Witness ==
    /\ missing = {"genes.fa"}
    /\ options.force
    /\ outdir_at_start.exists
    /\ failed = "check_files"
    /\ fs = StaleFiles

\* C14: when a second run with --force and the same command line and
\* inputs reaches the end, its final assembly, its keep and do-not-rotate
\* lists, its three counts and its exit status are those of the first run,
\* and the output directory holds the same files with the same content;
\* from the moment the second run has made its directory again, the
\* directory holds only what the second run wrote.
C14_SecondRunSame ==
    (run = 2 /\ options.force) =>
        /\ MkdirReturned => fs = Range(written)
        /\ pc = "done" =>
              /\ fasta[fixstart_fasta] = first_run.fasta[fixstart_fasta]
              /\ contigs_to_keep = first_run.contigs_to_keep
              /\ contigs_to_not_fix_start = first_run.contigs_to_not_fix_start
              /\ number_of_input_contigs = first_run.number_of_input_contigs
              /\ final_number_of_contigs = first_run.final_number_of_contigs
              /\ number_circularized = first_run.number_circularized
              /\ exit_status = first_run.exit_status
              /\ fs = first_run.fs
              /\ fasta = first_run.fasta
              /\ log_lines = first_run.log_lines
              /\ list_files = first_run.list_files

\* a second forced run has reached the end after a first run that
\* circularised a contig and lost another
C14_Witness ==
    /\ run = 2
    /\ options.force
    /\ pc = "done"
    /\ first_run.fs = Range(ExpectedArtifacts)
    /\ first_run.number_circularized = 1
    /\ first_run.number_of_input_contigs = 2
    /\ final_number_of_contigs = 1

\* the line without the newline that ends it
Chomp(line) ==
    IF line # <<>> /\ line[Len(line)] = NL THEN SubSeq(line, 1, Len(line) - 1) ELSE line

\* the tab-separated fields of the line as it is in the log
RawFields(line) == split(Chomp(line), TAB)

\* the sixth field of the line as it is in the log
RawSixth(line) == RawFields(line)[6]

\* the sixth field of the line once its trailing whitespace is stripped
StrippedSixth(line) == StrippedFields(line)[6]

\* the names of the logged lines whose sixth field is (one = TRUE) or is
\* not (one = FALSE) "1", in the order of the lines; the sixth field is
\* that of the line as it is or that of the stripped line
RECURSIVE NamesMarked(_, _, _)
NamesMarked(lines, one, stripped) ==
    IF lines = <<>> THEN <<>>
    ELSE LET line == Head(lines)
             sixth == IF stripped THEN StrippedSixth(line) ELSE RawSixth(line)
             rest == NamesMarked(Tail(lines), one, stripped)
         IN  IF Tagged(line) /\ ~IsHeader(line) /\ ((sixth = <<"1">>) = one)
             THEN << RawFields(line)[2] >> \o rest
             ELSE rest

\* C15 as stated: for a log whose logged lines have six tab-separated
\* fields, the classification returns with the keep list holding the names
\* of the lines whose sixth field is exactly "1" and the do-not-rotate list
\* the names of all other lines (sixth field "0", empty, other text), each
\* in the order of the lines.
C15_KeepIffOne ==
    (/\ Entered("classify")
     /\ merge_log \in fs
     /\ \A i \in LoggedLines : Len(RawFields(log_lines[i])) = 6) =>
        /\ AfterClassify
        /\ contigs_to_keep = NamesMarked(log_lines, TRUE, FALSE)
        /\ contigs_to_not_fix_start = NamesMarked(log_lines, FALSE, FALSE)

\* C15 as amended: the fields are those of the line with its trailing
\* whitespace stripped. When the classification has returned, the keep
\* list holds the names of the logged lines whose sixth field is then "1"
\* and the do-not-rotate list the names of the other logged lines, each in
\* the order of the lines; a logged line whose sixth field is empty or
\* blank has five fields once stripped, and the classification fails on it.
C15_KeepIffStrippedOne ==
    /\ AfterClassify =>
          /\ contigs_to_keep = NamesMarked(log_lines, TRUE, TRUE)
          /\ contigs_to_not_fix_start = NamesMarked(log_lines, FALSE, TRUE)
    /\ (/\ Entered("classify")
        /\ \E i \in LoggedLines :
              /\ Len(RawFields(log_lines[i])) = 6
              /\ RawSixth(log_lines[i]) = <<>>) => failed = "classify"

\* the names of two circularised contigs are kept in the order of their
\* lines, the sixth field of the first being 1 and a space
C15_Witness ==
    /\ AfterClassify
    /\ Len(log_lines) = 2
    /\ RawSixth(log_lines[1]) = <<"1", SPACE>>
    /\ contigs_to_keep = << <<"ctgB">>, <<"ctgA">> >>

\* C16: when the Cleaner is about to be invoked or has been invoked, the
\* keep file and the do-not-rotate file have been written by this run and
\* are in the output directory, the body of each being its names with a
\* newline after each, and empty for an empty list; the Cleaner was given
\* the keep file and the StartFixer the do-not-rotate file; and if either
\* file could not be made the Cleaner is not invoked.
C16_ListFilesBeforeClean ==
    /\ (pc = "clean" \/ Entered("clean")) =>
          /\ {clean_keep_file, not_fix_start_file} \subseteq fs
          /\ {clean_keep_file, not_fix_start_file} \subseteq Range(written)
          /\ contigs_to_keep = <<>> => list_files[clean_keep_file] = <<>>
          /\ contigs_to_not_fix_start = <<>> => list_files[not_fix_start_file] = <<>>
          /\ contigs_to_keep # <<>> =>
                list_files[clean_keep_file] = join(NL, contigs_to_keep) \o <<NL>>
          /\ contigs_to_not_fix_start # <<>> =>
                list_files[not_fix_start_file] = join(NL, contigs_to_not_fix_start) \o <<NL>>
    /\ \A i \in CallsOf("clean") : calls[i].inputs[2] = clean_keep_file
    /\ \A i \in CallsOf("fixstart") :
          /\ calls[i].inputs[2] = not_fix_start_file
          /\ not_fix_start_file \in fs
    /\ failed \in {"write_keep", "write_not_fix"} => ~Entered("clean")

\* the Cleaner has been invoked with a keep file that is there and empty
C16_Witness ==
    /\ Entered("clean")
    /\ contigs_to_keep = <<>>
    /\ Len(contigs_to_not_fix_start) = 2
    /\ clean_keep_file \in fs
    /\ list_files[clean_keep_file] = <<>>

\* C17: whenever the Merger is invoked, its reads are the filtered reads
\* (the file the ReadFilter wrote and the Assembler was given) when
\* --no_pair_merge is not set and none when it is set; and the steps
\* entered are an initial part of an order that does not depend on
\* --no_pair_merge.
C17_MergeReads ==
    /\ \A i \in CallsOf("merge") :
          IF ~options.no_pair_merge
          THEN /\ calls[i].inputs[3] \in {"02.bam2reads.fasta", "02.bam2reads.fastq"}
               /\ calls[i].inputs[3] \in Range(written)
               /\ \E j \in CallsOf("assemble") : calls[j].inputs[1] = calls[i].inputs[3]
          ELSE calls[i].inputs[3] = NONE
    /\ Steps = SubSeq(IF options.b2r_only_contigs # NONE THEN StageOrder
                      ELSE SelectSeq(StageOrder, IsRequired), 1, Len(calls))

\* a run without paired merging has reached the end, the Merger having
\* been given no reads
C17_Witness ==
    /\ pc = "done"
    /\ options.no_pair_merge
    /\ \E i \in CallsOf("merge") : calls[i].inputs[3] = NONE
    /\ Entered("fixstart")

\* the names of the artifacts of a run
Artifacts ==
    { "00.info.txt", "00.input_assembly.fasta", "01.mapreads.bam",
      "02.bam2reads.fasta", "02.bam2reads.fastq", "03.assemble",
      "04.merge.00.filtered_assembly.fa", "04.merge.fasta", "04.merge.circularise.log",
      "05.clean.contigs_to_keep", "05.clean.fasta",
      "06.fixstart.contigs_to_not_change", "06.fixstart.fasta", "06.fixstart.ALL_FINISHED" }

\* which step makes which input of which step: << reader, input, maker >>
Handoffs ==
    { << "mapreads", 1, "to_fasta" >>,
      << "bam2reads", 1, "mapreads" >>,
      << "assemble", 1, "bam2reads" >>,
      << "merge", 2, "assemble" >>,
      << "clean", 1, "merge" >>,
      << "clean", 2, "write_keep" >>,
      << "fixstart", 1, "clean" >>,
      << "fixstart", 2, "write_not_fix" >>,
      << "count_input", 1, "to_fasta" >>,
      << "count_final", 1, "fixstart" >> }

\* the name was made by an earlier step than the i-th and is there
MadeBefore(name, i) ==
    /\ name \in Range(written)
    /\ name \in fs
    /\ \E j \in 1..(i - 1) : name \in Range(Outputs(calls[j].step, options))

\* C18: when a step that invokes a collaborator or counts sequences has
\* been entered (it is the step entered last: every step is so in the
\* state it leads to), every artifact name among its inputs was written by
\* a step entered earlier in this run, which had returned, and is in the
\* output directory; and the Mapper reads what the normalization wrote,
\* the ReadFilter what the Mapper wrote, the Assembler what the ReadFilter
\* wrote, the Merger what the Assembler wrote, the Cleaner what the Merger
\* and the keep list step wrote, the StartFixer what the Cleaner and the
\* do-not-rotate list step wrote, and the summary counts what the
\* normalization and the StartFixer wrote.
C18_InputsMadeEarlier ==
    Len(calls) > 0 =>
        LET i == Len(calls)
            call == calls[i]
        IN  /\ call.step \in StageSteps =>
                  \A k \in 1..Len(call.inputs) :
                      call.inputs[k] \in Artifacts => MadeBefore(call.inputs[k], i)
            /\ \A h \in Handoffs :
                  call.step = h[1] =>
                      /\ call.inputs[h[2]] \in Artifacts
                      /\ call.inputs[h[2]] \in Range(Outputs(h[3], options))
                      /\ \E j \in CallsOf(h[3]) : j < i

\* the Assembler has been given the FASTQ file the ReadFilter wrote
C18_Witness ==
    /\ pc = "done"
    /\ options.assemble_not_only_assembler
    /\ \E i \in CallsOf("assemble") : calls[i].inputs[1] = "02.bam2reads.fastq"
    /\ "02.bam2reads.fastq" \in fs
    /\ "02.bam2reads.fasta" \notin fs

\* the first stage, the normalization of the assembly, is next or has
\* been entered
StagesBegun == pc = "to_fasta" \/ Entered("to_fasta")

\* C19: from the moment the first stage is next, no step changes an
\* option: the paths of the list of contigs and of the gene file have been
\* made absolute before, and the options keep their values to the end of
\* the run.
C19_OptionsReadOnly ==
    [][StagesBegun =>
          /\ options' = options
          /\ options.b2r_only_contigs \in {NONE, "/start/contigs.txt"}
          /\ options.genes_fa \in {NONE, "/start/genes.fa"}]_vars

\* a run whose two file options were made absolute has reached the end
C19_Witness ==
    /\ pc = "done"
    /\ options.b2r_only_contigs = "/start/contigs.txt"
    /\ options.genes_fa = "/start/genes.fa"
    /\ Entered("fixstart")

\* C20 as stated: the working directory of the process is at every moment
\* of a run the one the program was started in.
C20_CwdNeverChanges == cwd = "/start"

\* C20 as amended: the working directory is the one the program was
\* started in until the output directory has been made, and the output
\* directory from then on, to the end of the run or to the step that
\* fails; every artifact is written with the output directory as working
\* directory; and the assembly, the reads, the list of contigs and the
\* gene file are handed to the stages as absolute paths.
C20_ChdirOnce ==
    /\ ~Entered("chdir") => cwd = "/start"
    /\ Entered("chdir") => cwd = "/start/outdir"
    /\ Cardinality(CallsOf("chdir")) <= 1
    /\ written # <<>> => cwd = "/start/outdir"
    /\ \A i \in CallsOf("to_fasta") : calls[i].inputs[1] = "/start/assembly.fasta"
    /\ \A i \in CallsOf("mapreads") : calls[i].inputs[2] = "/start/reads.fastq"
    /\ \A i \in CallsOf("bam2reads") : calls[i].inputs[2] \in {NONE, "/start/contigs.txt"}
    /\ \A i \in CallsOf("fixstart") : calls[i].inputs[3] \in {NONE, "/start/genes.fa"}

\* a run has stopped in the Merger and has left the process in the output
\* directory
C20_Witness ==
    /\ failed = "merge"
    /\ cwd = "/start/outdir"
    /\ merged_fasta \in fs

====
